---- MODULE Spec2Model ----
(***************************************************************************)
(* Cycle detection and cycle elimination of the useCycleDetection hook.   *)
(*                                                                         *)
(* A node id is modelled by an integer i of Nodes that stands for the      *)
(* string "i".  A successor-list entry is either the string "i" (StrV(i))  *)
(* or the JSON number i (NumV(i)); String() maps both to the node id i.    *)
(* Node ids are assumed not to be names of Object.prototype members, so    *)
(* graphData[k] is undefined exactly when k is not a key of the graph.     *)
(*                                                                         *)
(* The recursive dfs closures are modelled with an explicit call stack     *)
(* (frames); one transition is one decision point of the code: the entry   *)
(* of a dfs call, or one iteration of its successor loop.                  *)
(***************************************************************************)
EXTENDS Integers, Sequences, FiniteSets, TLC

\* ------------------------------------------------------------------ bounds
\* the largest number of edges (successor-list entries) of an input graph
MaxEdges == 3

\* the node ids "1", "2", "3"
Nodes == {1, 2, 3}

\* ------------------------------------------------------------- graph model
StrV(i) == <<"str", i>>
NumV(i) == <<"num", i>>
Entries == {StrV(i) : i \in Nodes} \cup {NumV(i) : i \in Nodes}

\* String(neighbor): the node id an entry denotes
String(e) == e[2]

NumericIn(l) == Cardinality({i \in 1..Len(l) : l[i][1] = "num"})

Lists == UNION {[1..n -> Entries] : n \in 0..MaxEdges}

\* the adjacency lists with keys among K, at most e edges and at most m
\* number entries (a key may be absent: its node is then a dangling reference)
RECURSIVE GraphsOver(_, _, _)
GraphsOver(K, e, m) ==
    IF K = {} THEN {<<>>}
    ELSE LET n == CHOOSE x \in K : TRUE IN
         GraphsOver(K \ {n}, e, m) \cup
         UNION {{g @@ (n :> l) :
                    g \in GraphsOver(K \ {n}, e - Len(l), m - NumericIn(l))} :
                l \in {x \in Lists : Len(x) <= e /\ NumericIn(x) <= m}}

\* the input graphs: at most MaxEdges edges, at most one number entry
BoundedGraphs == GraphsOver(Nodes, MaxEdges, 1)

\* the sample graphs of the page whose node ids are numerals
TEST_CASES ==
    [patlytics_edge |-> (1 :> <<StrV(2), StrV(7)>>) @@
                        (2 :> <<StrV(3), StrV(4)>>) @@
                        (3 :> <<StrV(2), StrV(1)>>),
     self_loop |-> (1 :> <<StrV(1), StrV(2)>>) @@ (2 :> <<StrV(3)>>) @@
                   (3 :> <<>>),
     no_cycle |-> (1 :> <<StrV(2), StrV(3)>>) @@ (2 :> <<StrV(4)>>) @@
                  (3 :> <<StrV(4)>>) @@ (4 :> <<>>),
     long_cycle |-> (1 :> <<StrV(2)>>) @@ (2 :> <<StrV(3)>>) @@
                    (3 :> <<StrV(4)>>) @@ (4 :> <<StrV(1)>>)]

\* the graphs a call is made on
InputGraphs == BoundedGraphs \cup {TEST_CASES[c] : c \in DOMAIN TEST_CASES}

\* bug variant: the successors are taken last to first
Neighbors_Reversed(g, k) ==
    IF k \in DOMAIN g
    THEN [i \in 1..Len(g[k]) |-> g[k][Len(g[k]) + 1 - i]]
    ELSE <<>>

\* graphData[k] || []
Neighbors(g, k) == IF k \in DOMAIN g THEN g[k] ELSE <<>>

\* bug variant: a node that only occurs as a successor counts as present
StartMissing_Dangling(g, s) ==
    s \notin DOMAIN g /\ \A k \in DOMAIN g : \A i \in 1..Len(g[k]) : g[k][i][2] # s

\* !graphData[startNode]
StartMissing(g, s) == s \notin DOMAIN g

HasEdge(g, u, v) ==
    u \in DOMAIN g /\ \E i \in 1..Len(g[u]) : String(g[u][i]) = v

Succs(g, u) == {String(Neighbors(g, u)[i]) : i \in 1..Len(Neighbors(g, u))}

AllIds(g) == DOMAIN g \cup UNION {Succs(g, u) : u \in DOMAIN g}

RECURSIVE ReachFrom(_, _)
ReachFrom(g, S) ==
    LET T == S \cup UNION {Succs(g, u) : u \in S}
    IN IF T = S THEN S ELSE ReachFrom(g, T)

\* nodes reachable from s by zero or more edges
Reach(g, s) == ReachFrom(g, {s})

\* n lies on a cycle: n reaches itself by one or more edges
OnCycle(g, n) == n \in ReachFrom(g, Succs(g, n))

\* some cycle is reachable from s
CycleReachable(g, s) == \E n \in Reach(g, s) : OnCycle(g, n)

HasCycle(g) == \E n \in AllIds(g) : OnCycle(g, n)

\* ------------------------------------------------------- traversal helpers
Top(q) == q[Len(q)]
Pop(q) == SubSeq(q, 1, Len(q) - 1)
Elems(q) == {q[i] : i \in 1..Len(q)}

\* pathStack.indexOf(x)  (1-based; 0 when absent)
IndexOf(q, x) ==
    IF x \in Elems(q) THEN CHOOSE i \in 1..Len(q) :
                               q[i] = x /\ \A j \in 1..(i - 1) : q[j] # x
    ELSE 0

\* the fresh closure state of one call
NewRun(g) ==
    [visited |-> {}, recursionStack |-> {}, pathStack |-> <<>>,
     frames |-> <<>>, stepsLog |-> <<>>, skippedEdges |-> <<>>,
     safeGraph |-> <<>>, sharesInput |-> FALSE, removedEdges |-> <<>>,
     result |-> <<>>]

\* a dfs call: pc = "enter" before its first statement, "loop" inside its
\* successor loop, whose position is idx
Frame(n) == [node |-> n, pc |-> "enter", idx |-> 0]

SetTop(q, f) == [q EXCEPT ![Len(q)] = f]

\* bug variant: the slice starts at the bottom of the path
SliceFrom_Bottom(q, i) == q

\* bug variant: the slice starts one element after the culprit
SliceFrom_AfterCulprit(q, i) ==
    IF i = 0 THEN (IF q = <<>> THEN <<>> ELSE <<Top(q)>>)
    ELSE SubSeq(q, i + 1, Len(q))

\* pathStack.slice(loopStartIndex), loopStartIndex = indexOf (-1 when absent)
SliceFrom(q, i) ==
    IF i = 0 THEN (IF q = <<>> THEN <<>> ELSE <<Top(q)>>)
    ELSE SubSeq(q, i, Len(q))

NotFoundError(s) == [msg |-> "Node not found in graph", node |-> s]

\* the optional field f of a result object (<<>> stands for undefined)
Field(r, f) == IF f \in DOMAIN r THEN <<r[f]>> ELSE <<>>

\* ------------------------------------------------------------ runDetection
\* bug variant: the loop is not cut out of the path (slice forgotten)
DetectFinish_WholePath(s, r) ==
    IF r.found
    THEN [s EXCEPT !.frames = <<>>,
                   !.result = <<[found |-> TRUE, path |-> s.pathStack,
                                 loopPath |-> Append(s.pathStack, r.culprit)]>>]
    ELSE [s EXCEPT !.frames = <<>>, !.result = <<[found |-> FALSE]>>]

\* the body of runDetection after dfs(startNode) returned r
DetectFinish(s, r) ==
    IF r.found
    THEN LET loopStartIndex == IndexOf(s.pathStack, r.culprit)
             actualLoop == Append(SliceFrom(s.pathStack, loopStartIndex),
                                  r.culprit)
         IN [s EXCEPT !.frames = <<>>,
                      !.result = <<[found |-> TRUE, path |-> s.pathStack,
                                    loopPath |-> actualLoop]>>]
    ELSE [s EXCEPT !.frames = <<>>, !.result = <<[found |-> FALSE]>>]

\* bug variant: the caller's loop does not advance past the explored successor
RECURSIVE DetectReturn_NoAdvance(_, _, _)
DetectReturn_NoAdvance(s, fr, r) ==
    LET rest == Pop(fr) IN
    IF rest = <<>> THEN DetectFinish(s, r)
    ELSE IF r.found THEN DetectReturn_NoAdvance(s, rest, r)
    ELSE [s EXCEPT !.frames = rest]

\* bug variant: a call that passes a found cycle on marks its node visited
RECURSIVE DetectReturn_MarksOnUnwind(_, _, _)
DetectReturn_MarksOnUnwind(s, fr, r) ==
    LET rest == Pop(fr)
        marked == [s EXCEPT !.visited = @ \cup {Top(fr).node}]
    IN IF ~r.found
       THEN IF rest = <<>> THEN DetectFinish(s, r)
            ELSE [s EXCEPT !.frames =
                     SetTop(rest, [Top(rest) EXCEPT !.idx = @ + 1])]
       ELSE IF rest = <<>> THEN DetectFinish(marked, r)
            ELSE DetectReturn_MarksOnUnwind(marked, rest, r)

\* the top call of the call stack fr returns r to its caller, which returns
\* it in turn when it is a cycle (`if (result.found) return result`) and
\* moves on to its next successor otherwise; s holds the locals
RECURSIVE DetectReturn(_, _, _)
DetectReturn(s, fr, r) ==
    LET rest == Pop(fr) IN
    IF rest = <<>> THEN DetectFinish(s, r)
    ELSE IF r.found THEN DetectReturn(s, rest, r)
    ELSE [s EXCEPT !.frames =
             SetTop(rest, [Top(rest) EXCEPT !.idx = @ + 1])]

\* bug variant: one "seen" set, a node already verified counts as a cycle
DetectDfs_SingleSet(g, s) ==
    LET f == Top(s.frames)
        currentNode == f.node
        neighbors == Neighbors(g, currentNode)
    IN IF f.pc = "enter"
       THEN IF currentNode \in s.recursionStack \cup s.visited
            THEN DetectReturn(s, s.frames,
                             [found |-> TRUE, culprit |-> currentNode])
            ELSE [s EXCEPT !.recursionStack = @ \cup {currentNode},
                           !.pathStack = Append(@, currentNode),
                           !.frames = SetTop(@, [f EXCEPT !.pc = "loop",
                                                   !.idx = 1])]
       ELSE IF f.idx <= Len(neighbors)
            THEN [s EXCEPT !.frames =
                     Append(@, Frame(String(neighbors[f.idx])))]
            ELSE DetectReturn(
                     [s EXCEPT !.recursionStack = @ \ {currentNode},
                               !.pathStack = Pop(@),
                               !.visited = @ \cup {currentNode}],
                     s.frames, [found |-> FALSE])

\* one decision point of runDetection's dfs
DetectDfs(g, s) ==
    LET f == Top(s.frames)
        currentNode == f.node
        neighbors == Neighbors(g, currentNode)
    IN IF f.pc = "enter"
       THEN IF currentNode \in s.recursionStack
            THEN DetectReturn(s, s.frames,
                             [found |-> TRUE, culprit |-> currentNode])
            ELSE IF currentNode \in s.visited
            THEN DetectReturn(s, s.frames, [found |-> FALSE])
            ELSE [s EXCEPT !.recursionStack = @ \cup {currentNode},
                           !.pathStack = Append(@, currentNode),
                           !.frames = SetTop(@, [f EXCEPT !.pc = "loop", !.idx = 1])]
       ELSE IF f.idx <= Len(neighbors)
            THEN [s EXCEPT !.frames =
                     Append(@, Frame(String(neighbors[f.idx])))]
            ELSE DetectReturn(
                     [s EXCEPT !.recursionStack = @ \ {currentNode},
                               !.pathStack = Pop(@),
                               !.visited = @ \cup {currentNode}],
                     s.frames, [found |-> FALSE])

\* runDetection(graphData, startNode) up to the first dfs call
DetectCall(g, start) ==
    IF StartMissing(g, start)
    THEN [NewRun(g) EXCEPT
             !.result = <<[found |-> FALSE, error |-> NotFoundError(start)]>>]
    ELSE [NewRun(g) EXCEPT !.frames = <<Frame(start)>>]

\* --------------------------------------------------- runDetectionWithSteps
\* the object captureState pushes: action, node and copies of visited,
\* recursionStack and pathStack as they are in s, plus the extra fields
StepRecord(s, action, node, extra) ==
    [action |-> action, node |-> node, visited |-> s.visited,
     recursionStack |-> s.recursionStack, pathStack |-> s.pathStack] @@ extra

\* bug variant: the record holds the live set or array itself
Snapshot_Alias(captured, live) == live

\* new Set(x) and [...x] in captureState: the record holds a copy of x, which
\* keeps the content that was captured whatever x (live) holds by now
Snapshot(captured, live) == captured

\* the records of log as they read while the traversal state is s
AsRead(log, s) ==
    [i \in 1..Len(log) |->
        [log[i] EXCEPT !.visited = Snapshot(@, s.visited),
                       !.recursionStack = Snapshot(@, s.recursionStack),
                       !.pathStack = Snapshot(@, s.pathStack)]]

\* captureState, called once for each record of recs in turn
CaptureState(s, recs) == [s EXCEPT !.stepsLog = @ \o recs]

NoExtra == [x \in {} |-> 0]

\* pathStack[pathStack.length - 1]  (0 stands for undefined)
LastOf(q) == IF q = <<>> THEN 0 ELSE Top(q)

\* bug variant: the stack check is recorded before the entry
EnterAndCheck_CheckFirst(s, currentNode) ==
    <<StepRecord(s, "CHECK_IN_STACK", currentNode, NoExtra),
      StepRecord(s, "ENTER_NODE", currentNode, NoExtra)>>

\* the ENTER_NODE and CHECK_IN_STACK records of dfs(currentNode)
EnterAndCheck(s, currentNode) ==
    <<StepRecord(s, "ENTER_NODE", currentNode, NoExtra),
      StepRecord(s, "CHECK_IN_STACK", currentNode, NoExtra)>>

CycleFound(s, currentNode) ==
    StepRecord(s, "CYCLE_FOUND", currentNode,
               [isCycle |-> TRUE, cycleNode |-> currentNode])

\* bug variant: the node is taken off recursionStack but stays on pathStack
BacktrackAndMark_NoPop(s, currentNode) ==
    LET s1 == [s EXCEPT !.recursionStack = @ \ {currentNode},
                        !.visited = @ \cup {currentNode}]
    IN CaptureState(s1, <<StepRecord(s, "BACKTRACK", currentNode, NoExtra),
                          StepRecord(s1, "MARK_SAFE", currentNode, NoExtra)>>)

\* bug variant: the node leaves the stack without being added to visited
BacktrackAndMark_NoMark(s, currentNode) ==
    LET s1 == [s EXCEPT !.recursionStack = @ \ {currentNode},
                        !.pathStack = Pop(@)]
    IN CaptureState(s1, <<StepRecord(s, "BACKTRACK", currentNode, NoExtra),
                          StepRecord(s1, "MARK_SAFE", currentNode, NoExtra)>>)

\* bug variant: the node is popped and marked but stays in recursionStack
BacktrackAndMark_NoDelete(s, currentNode) ==
    LET s1 == [s EXCEPT !.pathStack = Pop(@),
                        !.visited = @ \cup {currentNode}]
    IN CaptureState(s1, <<StepRecord(s, "BACKTRACK", currentNode, NoExtra),
                          StepRecord(s1, "MARK_SAFE", currentNode, NoExtra)>>)

\* BACKTRACK record, the three updates, MARK_SAFE record
BacktrackAndMark(s, currentNode) ==
    LET s1 == [s EXCEPT !.recursionStack = @ \ {currentNode},
                        !.pathStack = Pop(@),
                        !.visited = @ \cup {currentNode}]
    IN CaptureState(s1, <<StepRecord(s, "BACKTRACK", currentNode, NoExtra),
                          StepRecord(s1, "MARK_SAFE", currentNode, NoExtra)>>)

\* bug variant: the node is marked visited as soon as it is put on the stack
AddToStack_MarksVisited(s, f, currentNode) ==
    LET s1 == [s EXCEPT !.recursionStack = @ \cup {currentNode},
                        !.visited = @ \cup {currentNode},
                        !.pathStack = Append(@, currentNode),
                        !.frames = SetTop(@, [f EXCEPT !.pc = "loop",
                                                !.idx = 1])]
    IN CaptureState(s1,
           EnterAndCheck(s, currentNode) \o
           <<StepRecord(s, "CHECK_VISITED", currentNode, NoExtra),
             StepRecord(s1, "ADD_TO_STACK", currentNode, NoExtra)>>)

\* a node neither on the stack nor visited: the records up to CHECK_VISITED,
\* the two pushes and the ADD_TO_STACK record
AddToStack(s, f, currentNode) ==
    LET s1 == [s EXCEPT !.recursionStack = @ \cup {currentNode},
                        !.pathStack = Append(@, currentNode),
                        !.frames = SetTop(@, [f EXCEPT !.pc = "loop",
                                                !.idx = 1])]
    IN CaptureState(s1,
           EnterAndCheck(s, currentNode) \o
           <<StepRecord(s, "CHECK_VISITED", currentNode, NoExtra),
             StepRecord(s1, "ADD_TO_STACK", currentNode, NoExtra)>>)

\* a node already visited: the records up to SKIP_VISITED
SkipVisited(s, currentNode) ==
    CaptureState(s,
        EnterAndCheck(s, currentNode) \o
        <<StepRecord(s, "CHECK_VISITED", currentNode, NoExtra),
          StepRecord(s, "SKIP_VISITED", currentNode, NoExtra)>>)

ExploreNeighbor(s, currentNode, neighborStr) ==
    [s EXCEPT !.stepsLog =
                 Append(@, StepRecord(s, "EXPLORE_NEIGHBOR", currentNode,
                                      [targetNeighbor |-> neighborStr])),
              !.frames = Append(@, Frame(neighborStr))]

\* bug variant: the COMPLETE record is captured after a cycle too, as the
\* skip-and-continue variant does
StepsFinish_CompleteAlways(s, start, r) ==
    LET log == Append(s.stepsLog, StepRecord(s, "COMPLETE", start, NoExtra))
    IN IF r.found
       THEN LET loopStartIndex == IndexOf(s.pathStack, r.culprit)
                actualLoop == Append(SliceFrom(s.pathStack, loopStartIndex),
                                     r.culprit)
            IN [s EXCEPT !.frames = <<>>, !.stepsLog = log,
                         !.result = <<[found |-> TRUE, path |-> s.pathStack,
                                       loopPath |-> actualLoop,
                                       cycleEdge |-> r.cycleEdge,
                                       steps |-> log]>>]
       ELSE [s EXCEPT !.frames = <<>>, !.stepsLog = log,
                      !.result = <<[found |-> FALSE, steps |-> log]>>]

\* stop-at-first-cycle variant: the body after dfs(startNode) returned r
StepsFinish(s, start, r) ==
    IF r.found
    THEN LET loopStartIndex == IndexOf(s.pathStack, r.culprit)
             actualLoop == Append(SliceFrom(s.pathStack, loopStartIndex),
                                  r.culprit)
         IN [s EXCEPT !.frames = <<>>,
                      !.result = <<[found |-> TRUE, path |-> s.pathStack,
                                    loopPath |-> actualLoop,
                                    cycleEdge |-> r.cycleEdge,
                                    steps |-> s.stepsLog]>>]
    ELSE LET log == Append(s.stepsLog,
                           StepRecord(s, "COMPLETE", start, NoExtra))
         IN [s EXCEPT !.frames = <<>>, !.stepsLog = log,
                      !.result = <<[found |-> FALSE, steps |-> log]>>]

\* bug variant: the caller carries on with its next successor after a cycle
StepsReturn_IgnoresFound(s, fr, start, r) ==
    LET rest == Pop(fr) IN
    IF rest = <<>> THEN StepsFinish(s, start, r)
    ELSE [s EXCEPT !.frames =
             SetTop(rest, [Top(rest) EXCEPT !.idx = @ + 1])]

\* the top call of the call stack fr returns r to its caller
RECURSIVE StepsReturn(_, _, _, _)
StepsReturn(s, fr, start, r) ==
    LET rest == Pop(fr) IN
    IF rest = <<>> THEN StepsFinish(s, start, r)
    ELSE IF r.found THEN StepsReturn(s, rest, start, r)
    ELSE [s EXCEPT !.frames =
             SetTop(rest, [Top(rest) EXCEPT !.idx = @ + 1])]

\* one decision point of the dfs of the stop-at-first-cycle variant
StepsDfs(g, start, s) ==
    LET f == Top(s.frames)
        currentNode == f.node
        neighbors == Neighbors(g, currentNode)
    IN IF f.pc = "enter"
       THEN IF currentNode \in s.recursionStack
            THEN StepsReturn(
                     CaptureState(s, EnterAndCheck(s, currentNode) \o
                                     <<CycleFound(s, currentNode)>>),
                     s.frames, start,
                     [found |-> TRUE, culprit |-> currentNode,
                      cycleEdge |-> [source |-> LastOf(s.pathStack),
                                     target |-> currentNode]])
            ELSE IF currentNode \in s.visited
                 THEN StepsReturn(SkipVisited(s, currentNode), s.frames,
                                  start, [found |-> FALSE])
                 ELSE AddToStack(s, f, currentNode)
       ELSE IF f.idx <= Len(neighbors)
            THEN ExploreNeighbor(s, currentNode, String(neighbors[f.idx]))
            ELSE StepsReturn(BacktrackAndMark(s, currentNode), s.frames,
                             start, [found |-> FALSE])

\* runDetectionWithSteps up to the first dfs call (both variants)
StepsCall(g, start) ==
    LET s0 == CaptureState(NewRun(g),
                  <<StepRecord(NewRun(g), "START", start, NoExtra)>>) IN
    IF StartMissing(g, start)
    THEN [s0 EXCEPT !.result = <<[found |-> FALSE,
                                  error |-> NotFoundError(start),
                                  steps |-> s0.stepsLog]>>]
    ELSE [s0 EXCEPT !.frames = <<Frame(start)>>]

\* bug variant: as in the stop-at-first-cycle variant, no COMPLETE record is
\* captured once a cycle was met
SkipFinish_NoComplete(s, start) ==
    IF Len(s.skippedEdges) > 0
    THEN [s EXCEPT !.frames = <<>>,
                   !.result = <<[found |-> TRUE, handled |-> TRUE,
                                 skippedEdges |-> s.skippedEdges,
                                 steps |-> s.stepsLog]>>]
    ELSE LET log == Append(s.stepsLog,
                           StepRecord(s, "COMPLETE", start, NoExtra))
         IN [s EXCEPT !.frames = <<>>, !.stepsLog = log,
                      !.result = <<[found |-> FALSE, steps |-> log]>>]

\* bug variant: found is the value the top dfs call returned, which is false
\* under the skip policy, instead of skippedEdges.length > 0
SkipFinish_FoundFromDfs(s, start) ==
    LET extra == IF Len(s.skippedEdges) > 0
                 THEN [count |-> Len(s.skippedEdges)] ELSE NoExtra
        log == Append(s.stepsLog, StepRecord(s, "COMPLETE", start, extra))
    IN [s EXCEPT !.frames = <<>>, !.stepsLog = log,
                 !.result = <<[found |-> FALSE, steps |-> log]>>]

\* skip-and-continue variant: the body after dfs(startNode) returned
SkipFinish(s, start) ==
    IF Len(s.skippedEdges) > 0
    THEN LET log == Append(s.stepsLog,
                           StepRecord(s, "COMPLETE", start,
                                      [count |-> Len(s.skippedEdges)]))
         IN [s EXCEPT !.frames = <<>>, !.stepsLog = log,
                      !.result = <<[found |-> TRUE, handled |-> TRUE,
                                    skippedEdges |-> s.skippedEdges,
                                    steps |-> log]>>]
    ELSE LET log == Append(s.stepsLog,
                           StepRecord(s, "COMPLETE", start, NoExtra))
         IN [s EXCEPT !.frames = <<>>, !.stepsLog = log,
                      !.result = <<[found |-> FALSE, steps |-> log]>>]

\* bug variant: the return unwinds the whole call stack, as a found result
\* does in the stop-at-first-cycle variant
SkipReturn_Abort(s, fr, start) == SkipFinish(s, start)

\* the top call of the call stack fr returns; the caller's loop ignores the
\* returned value
SkipReturn(s, fr, start) ==
    LET rest == Pop(fr) IN
    IF rest = <<>> THEN SkipFinish(s, start)
    ELSE [s EXCEPT !.frames =
             SetTop(rest, [Top(rest) EXCEPT !.idx = @ + 1])]

\* bug variant: the endpoints of the back-edge are recorded the wrong way
\* round
BackEdge_Swapped(s, currentNode) ==
    [source |-> currentNode, target |-> LastOf(s.pathStack)]

\* bug variant: the source recorded is the bottom of the path (the start
\* node), not its top
BackEdge_FromBottom(s, currentNode) ==
    [source |-> s.pathStack[1], target |-> currentNode]

\* { source: pathStack[pathStack.length - 1], target: currentNode }
BackEdge(s, currentNode) ==
    [source |-> LastOf(s.pathStack), target |-> currentNode]

\* one decision point of the dfs of the skip-and-continue variant
SkipDfs(g, start, s) ==
    LET f == Top(s.frames)
        currentNode == f.node
        neighbors == Neighbors(g, currentNode)
    IN IF f.pc = "enter"
       THEN IF currentNode \in s.recursionStack
            THEN LET backEdge == BackEdge(s, currentNode)
                 IN SkipReturn(
                        [s EXCEPT
                           !.skippedEdges = Append(@, backEdge),
                           !.stepsLog = @ \o EnterAndCheck(s, currentNode) \o
                               <<CycleFound(s, currentNode),
                                 StepRecord(s, "SKIP_CYCLE", currentNode,
                                            [skippedEdge |-> backEdge])>>],
                        s.frames, start)
            ELSE IF currentNode \in s.visited
                 THEN SkipReturn(SkipVisited(s, currentNode), s.frames, start)
                 ELSE AddToStack(s, f, currentNode)
       ELSE IF f.idx <= Len(neighbors)
            THEN ExploreNeighbor(s, currentNode, String(neighbors[f.idx]))
            ELSE SkipReturn(BacktrackAndMark(s, currentNode), s.frames, start)

\* ------------------------------------------------------------ removeCycles
\* JSON.stringify: a string entry is written quoted, a number entry bare
JsonStringify(g) ==
    [k \in DOMAIN g |->
        [i \in 1..Len(g[k]) |->
            IF g[k][i][1] = "str" THEN <<"quoted", g[k][i][2]>>
            ELSE <<"bare", g[k][i][2]>>]]

\* bug variant: every entry comes back as a string
JsonParse_AllStrings(t) ==
    [k \in DOMAIN t |-> [i \in 1..Len(t[k]) |-> StrV(t[k][i][2])]]

\* JSON.parse: a quoted token becomes a string, a bare one a number
JsonParse(t) ==
    [k \in DOMAIN t |->
        [i \in 1..Len(t[k]) |->
            IF t[k][i][1] = "quoted" THEN StrV(t[k][i][2])
            ELSE NumV(t[k][i][2])]]

\* bug variant: the index is taken as 1-based, the entry after i is deleted
Splice_OffByOne(q, i) == SubSeq(q, 1, i + 1) \o SubSeq(q, i + 3, Len(q))

\* bug variant: splice(i) without a count deletes everything from i on
Splice_NoCount(q, i) == SubSeq(q, 1, i)

\* bug variant: the last entry is deleted (pop) instead of entry i
Splice_Last(q, i) == SubSeq(q, 1, Len(q) - 1)

\* q.splice(i, 1) with the 0-based index i
Splice(q, i) == SubSeq(q, 1, i) \o SubSeq(q, i + 2, Len(q))

\* bug variant: the endpoints are recorded the wrong way round
RemovedEdge_Swapped(currentNode, neighbor) ==
    [source |-> neighbor, target |-> currentNode]

\* the record pushed on removedEdges
RemovedEdge(currentNode, neighbor) ==
    [source |-> currentNode, target |-> neighbor]

\* bug variant: an edge to an already verified node is taken for a back-edge
IsBackEdge_OrVisited(s, neighbor) ==
    neighbor \in s.recursionStack \cup s.visited

\* recursionStack.has(neighbor)
IsBackEdge(s, neighbor) == neighbor \in s.recursionStack

\* bug variant: the index is decremented twice, every other entry is skipped
NextIndex_SkipsOne(i) == i - 2

\* the i-- of the successor loop
NextIndex(i) == i - 1

\* bug variant: the loop starts one short of the last successor
FirstIndex_SkipsLast(neighbors) == Len(neighbors) - 2

\* let i = neighbors.length - 1: the successors are taken last to first
FirstIndex(neighbors) == Len(neighbors) - 1

\* bug variant: the returned graph is rebuilt from the nodes the traversal
\* has visited
RemoveFinish_OnlyVisited(s) ==
    [s EXCEPT !.frames = <<>>,
              !.result = <<[safeGraph |->
                                [k \in DOMAIN s.safeGraph \cap s.visited |->
                                    s.safeGraph[k]],
                            removedEdges |-> s.removedEdges]>>]

\* the return of removeCycles
RemoveFinish(s) ==
    [s EXCEPT !.frames = <<>>,
              !.result = <<[safeGraph |-> s.safeGraph,
                            removedEdges |-> s.removedEdges]>>]

\* the top call of the call stack fr returns; its caller's loop runs its i--
RemoveReturn(s, fr) ==
    LET rest == Pop(fr) IN
    IF rest = <<>> THEN RemoveFinish(s)
    ELSE [s EXCEPT !.frames =
             SetTop(rest, [Top(rest) EXCEPT !.idx = NextIndex(@)])]

\* one decision point of removeCycles' dfs; idx is the 0-based loop index i
RemoveDfs(s) ==
    LET f == Top(s.frames)
        currentNode == f.node
        neighbors == Neighbors(s.safeGraph, currentNode)
    IN IF f.pc = "enter"
       THEN [s EXCEPT !.recursionStack = @ \cup {currentNode},
                      !.pathStack = Append(@, currentNode),
                      !.frames = SetTop(@, [f EXCEPT !.pc = "loop",
                                              !.idx = FirstIndex(neighbors)])]
       ELSE IF f.idx >= 0
            THEN LET neighbor == String(neighbors[f.idx + 1]) IN
                 IF IsBackEdge(s, neighbor)
                 THEN [s EXCEPT
                        !.safeGraph[currentNode] = Splice(@, f.idx),
                        !.removedEdges =
                            Append(@, RemovedEdge(currentNode, neighbor)),
                        !.frames = SetTop(@, [f EXCEPT !.idx = NextIndex(f.idx)])]
                 ELSE IF neighbor \notin s.visited
                 THEN [s EXCEPT !.frames = Append(@, Frame(neighbor))]
                 ELSE [s EXCEPT
                        !.frames = SetTop(@, [f EXCEPT !.idx = NextIndex(f.idx)])]
            ELSE RemoveReturn(
                     [s EXCEPT !.recursionStack = @ \ {currentNode},
                               !.pathStack = Pop(@),
                               !.visited = @ \cup {currentNode}],
                     s.frames)

\* bug variant: the working graph is the caller's object itself
DeepCopy_SameObject(g) == [content |-> g, sharesInput |-> TRUE]

\* bug variant: the copy is completed with a key for every node mentioned
DeepCopy_AddsKeys(g) ==
    [content |-> JsonParse(JsonStringify(g)) @@
                     [d \in AllIds(g) \ DOMAIN g |-> <<>>],
     sharesInput |-> FALSE]

\* JSON.parse(JSON.stringify(graphData)): an object of its own that holds
\* the content the text parses to, and shares nothing with graphData
DeepCopy(g) == [content |-> JsonParse(JsonStringify(g)), sharesInput |-> FALSE]

\* the caller's graph g once the working graph of s has been written to:
\* the writes reach g when the working graph is the same object
CallerGraph(g, s) == IF s.sharesInput THEN s.safeGraph ELSE g

\* removeCycles(graphData, startNode) up to the first dfs call
RemoveCall(g, start) ==
    LET s0 == [NewRun(g) EXCEPT !.safeGraph = DeepCopy(g).content,
                                !.sharesInput = DeepCopy(g).sharesInput]
    IN IF StartMissing(s0.safeGraph, start)
       THEN RemoveFinish(s0)
       ELSE [s0 EXCEPT !.frames = <<Frame(start)>>]

\* ------------------------------------------------- the calls run to the end
RECURSIVE RunDetect(_, _)
RunDetect(g, s) == IF s.frames = <<>> THEN s ELSE RunDetect(g, DetectDfs(g, s))

RECURSIVE RunSteps(_, _, _)
RunSteps(g, start, s) ==
    IF s.frames = <<>> THEN s ELSE RunSteps(g, start, StepsDfs(g, start, s))

RECURSIVE RunSkip(_, _, _)
RunSkip(g, start, s) ==
    IF s.frames = <<>> THEN s ELSE RunSkip(g, start, SkipDfs(g, start, s))

RECURSIVE RunRemove(_)
RunRemove(s) == IF s.frames = <<>> THEN s ELSE RunRemove(RemoveDfs(s))

\* the values the four functions return
runDetection(g, start) == RunDetect(g, DetectCall(g, start)).result[1]
runDetectionWithSteps(g, start) ==
    RunSteps(g, start, StepsCall(g, start)).result[1]
runDetectionWithStepsSkip(g, start) ==
    RunSkip(g, start, StepsCall(g, start)).result[1]
removeCycles(g, start) == RunRemove(RemoveCall(g, start)).result[1]

\* ---------------------------------------------------------- App: fixCycle
\* bug variant: the re-check parses the text the editor state held when the
\* handler ran (the stale jsonInput of the closure)
RecheckText_Stale(jsonInput, newJson) == jsonInput

\* the text the setTimeout callback of fixCycle parses: the local newJson
RecheckText(jsonInput, newJson) == newJson

\* the App's state that fixCycle reads and sets; result <<>> stands for null
AppState(jsonInput, isStepMode, res) ==
    [jsonInput |-> jsonInput, isStepMode |-> isStepMode, result |-> res,
     alert |-> <<>>]

\* fixCycle with its setTimeout callback run: the App state it leaves
fixCycle(app, targetPatent) ==
    LET currentData == JsonParse(app.jsonInput)
        fix == removeCycles(currentData, targetPatent)
    IN IF Len(fix.removedEdges) > 0
       THEN LET newJson == JsonStringify(fix.safeGraph)
                adjList == JsonParse(RecheckText(app.jsonInput, newJson))
                analysis == runDetection(adjList, targetPatent)
            IN [app EXCEPT
                  !.jsonInput = newJson,
                  !.isStepMode = FALSE,
                  !.result = IF ~analysis.found
                             THEN <<[status |-> "PASS",
                                     resolved |-> fix.removedEdges]>>
                             ELSE <<>>]
       ELSE [app EXCEPT !.alert = <<"No cycles to remove.">>]

\* ------------------------------------------------------- App: replay player
\* the App state the replay player reads and sets; autoPlayRef 0 stands for
\* null, timers holds the ids of the timeouts that are set and have neither
\* fired nor been cleared, userPresent tells whether clicks can still arrive
NewPlayer ==
    [steps |-> <<>>, currentStepIndex |-> -1, isStepMode |-> FALSE,
     isAutoPlaying |-> FALSE, autoPlaySpeed |-> 1000, result |-> <<>>,
     autoPlayRef |-> 0, timers |-> {}, userPresent |-> TRUE]

TimerIds == {1, 2, 3}

\* the id setTimeout returns: one that no timeout in use carries
NewTimerId(p) ==
    LET free == TimerIds \ (p.timers \cup {p.autoPlayRef})
    IN IF free = {} THEN 0
       ELSE CHOOSE i \in free : \A j \in free : i <= j

\* the dependency list of the autoplay effect
EffectDeps(p) ==
    <<p.isAutoPlaying, p.currentStepIndex, p.steps, p.autoPlaySpeed>>

\* bug variant: the cleanup leaves the timeout of the previous render set
EffectCleanup_NoClear(p) == p

\* the function the autoplay effect returns:
\* autoPlayRef.current && clearTimeout(autoPlayRef.current)
EffectCleanup(p) ==
    IF p.autoPlayRef # 0
    THEN [p EXCEPT !.timers = @ \ {p.autoPlayRef}]
    ELSE p

\* bug variant: autoplay is not switched off at the last step
AutoPlayEffect_NoStop(p) ==
    IF p.isAutoPlaying /\ p.currentStepIndex < Len(p.steps) - 1
    THEN [p EXCEPT !.autoPlayRef = NewTimerId(p),
                   !.timers = @ \cup {NewTimerId(p)}]
    ELSE p

\* the body of the autoplay effect
AutoPlayEffect(p) ==
    IF p.isAutoPlaying /\ p.currentStepIndex < Len(p.steps) - 1
    THEN [p EXCEPT !.autoPlayRef = NewTimerId(p),
                   !.timers = @ \cup {NewTimerId(p)}]
    ELSE IF p.currentStepIndex >= Len(p.steps) - 1
         THEN [p EXCEPT !.isAutoPlaying = FALSE]
         ELSE p

\* the render that follows a state update: when a dependency differs from
\* the last render's, the cleanup of that render's effect runs and then the
\* effect; a state update made by the effect is rendered in turn
RECURSIVE Render(_, _)
Render(rendered, p) ==
    IF EffectDeps(rendered) = EffectDeps(p) THEN p
    ELSE Render(p, AutoPlayEffect(EffectCleanup(p)))

\* handleStepByStep once runDetectionWithSteps has returned analysis
handleStepByStep(p, analysis) ==
    IF "error" \in DOMAIN analysis THEN p
    ELSE [p EXCEPT
            !.steps = analysis.steps,
            !.currentStepIndex = 0,
            !.isStepMode = TRUE,
            !.result =
                IF analysis.found /\ Field(analysis, "handled") = <<TRUE>>
                THEN <<[status |-> "HANDLED",
                        skippedEdges |-> analysis.skippedEdges]>>
                ELSE IF analysis.found
                THEN <<[status |-> "FAIL",
                        cycleEdge |-> analysis.cycleEdge]>>
                ELSE <<>>]

nextStep(p) ==
    IF p.currentStepIndex < Len(p.steps) - 1
    THEN [p EXCEPT !.currentStepIndex = p.currentStepIndex + 1]
    ELSE p

prevStep(p) ==
    IF p.currentStepIndex > 0
    THEN [p EXCEPT !.currentStepIndex = p.currentStepIndex - 1]
    ELSE p

goToStep(p, index) ==
    IF index >= 0 /\ index < Len(p.steps)
    THEN [p EXCEPT !.currentStepIndex = index]
    ELSE p

toggleAutoPlay(p) == [p EXCEPT !.isAutoPlaying = ~p.isAutoPlaying]

exitStepMode(p) ==
    [p EXCEPT !.isStepMode = FALSE, !.steps = <<>>,
              !.currentStepIndex = -1, !.isAutoPlaying = FALSE]

\* the callback of the autoplay timeout id: setCurrentStepIndex(prev => prev + 1)
AutoPlayTick(p, id) ==
    [p EXCEPT !.timers = @ \ {id}, !.currentStepIndex = @ + 1]

\* ------------------------------------------------------------------- state
\* run is the closure state of the call in progress: the locals of the
\* function being executed and the call stack of its dfs; player is the
\* state of the App's replay player
VARIABLES graph, startNode, op, run, player

vars == <<graph, startNode, op, run, player>>

visited == run.visited
recursionStack == run.recursionStack
pathStack == run.pathStack
frames == run.frames
stepsLog == AsRead(run.stepsLog, run)
skippedEdges == run.skippedEdges
safeGraph == run.safeGraph
removedEdges == run.removedEdges
result == run.result

Running == frames # <<>>
Done == op # "idle" /\ frames = <<>>
Result == result[1]

Init ==
    /\ graph \in InputGraphs
    /\ startNode = 1
    /\ op = "idle"
    /\ run = NewRun(graph)
    /\ player = NewPlayer

\* ----------------------------------------------------------------- actions
CallRunDetection ==
    /\ op = "idle"
    /\ \E s \in Nodes :
          /\ startNode' = s
          /\ run' = DetectCall(graph, s)
    /\ op' = "runDetection"
    /\ UNCHANGED <<graph, player>>

StepRunDetection ==
    /\ op = "runDetection" /\ Running
    /\ run' = DetectDfs(graph, run)
    /\ UNCHANGED <<graph, startNode, op, player>>

CallRunDetectionWithSteps ==
    /\ op = "idle"
    /\ \E s \in Nodes :
          /\ startNode' = s
          /\ run' = StepsCall(graph, s)
    /\ op' = "runDetectionWithSteps"
    /\ UNCHANGED <<graph, player>>

StepRunDetectionWithSteps ==
    /\ op = "runDetectionWithSteps" /\ Running
    /\ run' = StepsDfs(graph, startNode, run)
    /\ UNCHANGED <<graph, startNode, op, player>>

CallRunDetectionWithStepsSkip ==
    /\ op = "idle"
    /\ \E s \in Nodes :
          /\ startNode' = s
          /\ run' = StepsCall(graph, s)
    /\ op' = "runDetectionWithStepsSkip"
    /\ UNCHANGED <<graph, player>>

StepRunDetectionWithStepsSkip ==
    /\ op = "runDetectionWithStepsSkip" /\ Running
    /\ run' = SkipDfs(graph, startNode, run)
    /\ UNCHANGED <<graph, startNode, op, player>>

CallRemoveCycles ==
    /\ op = "idle"
    /\ \E s \in Nodes :
          /\ startNode' = s
          /\ run' = RemoveCall(graph, s)
    /\ op' = "removeCycles"
    /\ UNCHANGED <<graph, player>>

StepRemoveCycles ==
    /\ op = "removeCycles" /\ Running
    /\ run' = RemoveDfs(run)
    /\ graph' = CallerGraph(graph, run')
    /\ UNCHANGED <<startNode, op, player>>

\* the call has returned; each call owns a fresh traversal state
Return ==
    /\ Done
    /\ op' = "idle"
    /\ run' = NewRun(graph)
    /\ UNCHANGED <<graph, startNode, player>>

Next ==
    \/ CallRunDetection
    \/ StepRunDetection
    \/ CallRunDetectionWithSteps
    \/ StepRunDetectionWithSteps
    \/ CallRunDetectionWithStepsSkip
    \/ StepRunDetectionWithStepsSkip
    \/ CallRemoveCycles
    \/ StepRemoveCycles
    \/ Return

Spec == Init /\ [][Next]_vars

\* one call, followed from its entry to its return
NextCall ==
    \/ CallRunDetection
    \/ StepRunDetection
    \/ CallRunDetectionWithSteps
    \/ StepRunDetectionWithSteps
    \/ CallRunDetectionWithStepsSkip
    \/ StepRunDetectionWithStepsSkip
    \/ CallRemoveCycles
    \/ StepRemoveCycles

\* the next statement of the call in progress
StepCall ==
    \/ StepRunDetection
    \/ StepRunDetectionWithSteps
    \/ StepRunDetectionWithStepsSkip
    \/ StepRemoveCycles

\* the calls are synchronous: a started traversal keeps taking its steps
LiveSpec == Init /\ [][NextCall]_vars /\ WF_vars(StepCall)

\* ------------------------------------------------- the replay player's steps
\* the cases the App offers in its editor
PlayerInit ==
    /\ graph \in {TEST_CASES[c] : c \in DOMAIN TEST_CASES}
    /\ startNode = 1
    /\ op = "idle"
    /\ run = NewRun(graph)
    /\ player = NewPlayer

\* the values the speed slider can set (2200 - value, value in 200..2000)
AutoPlaySpeeds == {200, 1000, 2000}

\* the step-by-step button outside step mode, with either trace variant
OnStepByStep ==
    /\ player.userPresent /\ ~player.isStepMode
    /\ \E t \in Nodes :
          \E analysis \in {runDetectionWithSteps(graph, t),
                           runDetectionWithStepsSkip(graph, t)} :
             /\ startNode' = t
             /\ player' = Render(player, handleStepByStep(player, analysis))
    /\ UNCHANGED <<graph, op, run>>

OnNextStep ==
    /\ player.userPresent /\ player.isStepMode
    /\ player' = Render(player, nextStep(player))
    /\ UNCHANGED <<graph, startNode, op, run>>

OnPrevStep ==
    /\ player.userPresent /\ player.isStepMode
    /\ player' = Render(player, prevStep(player))
    /\ UNCHANGED <<graph, startNode, op, run>>

OnGoToStep ==
    /\ player.userPresent /\ player.isStepMode
    /\ \E index \in -1..Len(player.steps) :
          player' = Render(player, goToStep(player, index))
    /\ UNCHANGED <<graph, startNode, op, run>>

OnToggleAutoPlay ==
    /\ player.userPresent /\ player.isStepMode
    /\ player' = Render(player, toggleAutoPlay(player))
    /\ UNCHANGED <<graph, startNode, op, run>>

OnSpeedChange ==
    /\ player.userPresent /\ player.isStepMode
    /\ \E v \in AutoPlaySpeeds :
          player' = Render(player, [player EXCEPT !.autoPlaySpeed = v])
    /\ UNCHANGED <<graph, startNode, op, run>>

\* the step-by-step button inside step mode
OnExitStepMode ==
    /\ player.userPresent /\ player.isStepMode
    /\ player' = Render(player, exitStepMode(player))
    /\ UNCHANGED <<graph, startNode, op, run>>

\* a timeout that is set expires and its callback runs
TimerFires ==
    /\ \E id \in player.timers :
          player' = Render(player, AutoPlayTick(player, id))
    /\ UNCHANGED <<graph, startNode, op, run>>

\* no click arrives from here on
UserLeaves ==
    /\ player.userPresent
    /\ player' = [player EXCEPT !.userPresent = FALSE]
    /\ UNCHANGED <<graph, startNode, op, run>>

PlayerNext ==
    \/ OnStepByStep
    \/ OnNextStep
    \/ OnPrevStep
    \/ OnGoToStep
    \/ OnToggleAutoPlay
    \/ OnSpeedChange
    \/ OnExitStepMode
    \/ TimerFires
    \/ UserLeaves

PlayerSpec == PlayerInit /\ [][PlayerNext]_vars

\* a timeout that is set and not cleared expires after its delay
PlayerLiveSpec == PlayerInit /\ [][PlayerNext]_vars /\ WF_vars(TimerFires)

\* ------------------------------------------------------------------ claims
StartIsKey == startNode \in DOMAIN graph

\* C1: on a graph without any cycle, runDetection from a start node that is
\* a key returns found = false and no error.
C1_AcyclicNotFound ==
    (op = "runDetection" /\ Done /\ StartIsKey /\ ~HasCycle(graph))
        => (Result.found = FALSE /\ "error" \notin DOMAIN Result)

\* an acyclic run that pruned a re-entered node: the start node lists the
\* same successor twice
C1_Witness ==
    /\ op = "runDetection" /\ Done /\ StartIsKey /\ ~HasCycle(graph)
    /\ Cardinality(visited) >= 2
    /\ Len(graph[startNode]) = 2
    /\ Cardinality(Succs(graph, startNode)) = 1
    /\ Result.found = FALSE

IsClosedWalk(g, p) ==
    /\ Len(p) >= 2
    /\ p[1] = p[Len(p)]
    /\ \A i \in 1..(Len(p) - 1) : HasEdge(g, p[i], p[i + 1])

\* C2: when a cycle is reachable from the start key, runDetection returns
\* found = true and a loopPath that is a closed walk of the input graph.
C2_CycleFoundClosedWalk ==
    (op = "runDetection" /\ Done /\ StartIsKey
        /\ CycleReachable(graph, startNode))
        => (Result.found = TRUE /\ "loopPath" \in DOMAIN Result
            /\ IsClosedWalk(graph, Result.loopPath))

\* a cycle that does not pass through the start node was reported
C2_Witness ==
    /\ op = "runDetection" /\ Done /\ StartIsKey
    /\ CycleReachable(graph, startNode)
    /\ Result.found = TRUE
    /\ Len(Result.loopPath) = 3
    /\ Result.loopPath[1] # startNode

\* C3: every started call of runDetection, of either runDetectionWithSteps
\* variant and of removeCycles reaches its return.
C3_Terminates == Running ~> Done

\* a call returned on a graph with a self-loop and a two-node cycle, both
\* reachable from the start node
C3_Witness ==
    /\ Done /\ StartIsKey
    /\ \E n \in Reach(graph, startNode) : HasEdge(graph, n, n)
    /\ \E a, b \in Reach(graph, startNode) :
          a # b /\ HasEdge(graph, a, b) /\ HasEdge(graph, b, a)

\* C4: the safeGraph returned by removeCycles has no cycle through any node
\* reachable from the start node in the input graph.
C4_SafeGraphAcyclic ==
    (op = "removeCycles" /\ Done)
        => \A n \in Reach(graph, startNode) : ~OnCycle(Result.safeGraph, n)

\* a call that removed an edge of a graph in which a cycle was reachable
C4_Witness ==
    /\ op = "removeCycles" /\ Done /\ StartIsKey
    /\ CycleReachable(graph, startNode)
    /\ Len(Result.removedEdges) >= 1
    /\ Result.safeGraph # graph

\* C5: every removedEdges entry {source, target} is an edge of the input
\* graph: target is String() of an entry of the input list of source.
C5_RemovedEdgesExist ==
    op = "removeCycles"
        => \A i \in 1..Len(removedEdges) :
              HasEdge(graph, removedEdges[i].source, removedEdges[i].target)

\* a removed edge whose endpoints differ and whose input entry is a number
C5_Witness ==
    /\ op = "removeCycles" /\ Done
    /\ \E i \in 1..Len(Result.removedEdges) :
          LET e == Result.removedEdges[i] IN
          /\ e.source # e.target
          /\ \E j \in 1..Len(graph[e.source]) :
                graph[e.source][j] = NumV(e.target)

\* the step of removeCycles that records a removed edge
Removal ==
    /\ op = "removeCycles" /\ op' = "removeCycles"
    /\ Len(removedEdges') = Len(removedEdges) + 1

\* the number of entries of the successor list of u that denote v
EntryCount(g, u, v) ==
    Cardinality({i \in 1..Len(Neighbors(g, u)) : String(Neighbors(g, u)[i]) = v})

\* the working graph g has a cycle through the edge e that is reachable
\* from the start node
CycleThrough(g, e) ==
    /\ HasEdge(g, e.source, e.target)
    /\ e.source \in Reach(g, e.target)
    /\ e.source \in Reach(g, startNode)

\* C6 as stated: when an edge is removed the working graph has a reachable
\* cycle through it, and that cycle is gone after the removal.
C6_RemovalBreaksCycle ==
    [][Removal =>
         LET e == removedEdges'[Len(removedEdges')] IN
         /\ CycleThrough(safeGraph, e)
         /\ ~HasEdge(safeGraph', e.source, e.target)]_vars

\* C6 amended: when an edge is removed the working graph has a reachable
\* cycle through it; the removal deletes exactly one list entry of that
\* edge, so the cycle is gone after the removal unless the source lists the
\* target more than once.
C6_RemovalDeletesOneCycleEntry ==
    [][Removal =>
         LET e == removedEdges'[Len(removedEdges')] IN
         /\ CycleThrough(safeGraph, e)
         /\ EntryCount(safeGraph', e.source, e.target)
                = EntryCount(safeGraph, e.source, e.target) - 1
         /\ \A k \in DOMAIN safeGraph :
                k # e.source => safeGraph'[k] = safeGraph[k]
         /\ EntryCount(safeGraph, e.source, e.target) = 1
                => ~HasEdge(safeGraph', e.source, e.target)]_vars

\* both duplicates of one back-edge were removed, one removal each
C6_Witness ==
    /\ op = "removeCycles" /\ Done
    /\ Len(Result.removedEdges) = 2
    /\ Result.removedEdges[1] = Result.removedEdges[2]
    /\ Result.removedEdges[1].source # Result.removedEdges[1].target

\* C7: removeCycles applied to its own safeGraph with the same start node
\* removes nothing and returns a safeGraph equal to its input.
C7_Idempotent ==
    (op = "removeCycles" /\ Done)
        => LET again == removeCycles(Result.safeGraph, startNode) IN
           /\ again.removedEdges = <<>>
           /\ again.safeGraph = Result.safeGraph

\* the first call removed two different edges
C7_Witness ==
    /\ op = "removeCycles" /\ Done
    /\ Len(Result.removedEdges) = 2
    /\ Result.removedEdges[1] # Result.removedEdges[2]

\* C8 as stated: the stop-at-first-cycle runDetectionWithSteps returns the
\* same found, loopPath and cycleEdge as runDetection on the same input.
C8_SameAsRunDetection ==
    (op = "runDetectionWithSteps" /\ Done)
        => LET plain == runDetection(graph, startNode) IN
           /\ Field(Result, "found") = Field(plain, "found")
           /\ Field(Result, "loopPath") = Field(plain, "loopPath")
           /\ Field(Result, "cycleEdge") = Field(plain, "cycleEdge")

\* the part of C8 the two functions do agree on: found, loopPath and error
C8_SameFoundAndLoopPath ==
    (op = "runDetectionWithSteps" /\ Done)
        => LET plain == runDetection(graph, startNode) IN
           /\ Field(Result, "found") = Field(plain, "found")
           /\ Field(Result, "loopPath") = Field(plain, "loopPath")
           /\ Field(Result, "error") = Field(plain, "error")

DetectionOps ==
    {"runDetection", "runDetectionWithSteps", "runDetectionWithStepsSkip"}

\* C9: when the start node is not a key, runDetection and both
\* runDetectionWithSteps variants return at once found = false with an error
\* naming the start node; nothing is added to recursionStack, pathStack or
\* visited and no ENTER_NODE record is emitted.
C9_MissingStartDetect ==
    (op \in DetectionOps /\ ~StartIsKey)
        => /\ Done
           /\ Result.found = FALSE
           /\ "error" \in DOMAIN Result
           /\ Result.error.msg # "" /\ Result.error.node = startNode
           /\ visited = {} /\ recursionStack = {} /\ pathStack = <<>>
           /\ \A i \in 1..Len(stepsLog) : stepsLog[i].action # "ENTER_NODE"

\* a trace call whose start node is only a dangling reference of a key
C9_Witness ==
    /\ op = "runDetectionWithStepsSkip" /\ ~StartIsKey /\ Done
    /\ \E k \in DOMAIN graph : HasEdge(graph, k, startNode)
    /\ "error" \in DOMAIN Result
    /\ Len(Result.steps) = 1

\* C10: when the start node is not a key, removeCycles returns at once, with
\* no error, a safeGraph equal to the input graph and no removed edge.
C10_MissingStartRemove ==
    (op = "removeCycles" /\ ~StartIsKey)
        => /\ Done
           /\ "error" \notin DOMAIN Result
           /\ Result.safeGraph = graph
           /\ Result.removedEdges = <<>>

\* the untouched graph has a cycle and a number entry
C10_Witness ==
    /\ op = "removeCycles" /\ ~StartIsKey /\ Done
    /\ HasCycle(graph)
    /\ \E k \in DOMAIN graph : NumericIn(graph[k]) = 1
    /\ Result.removedEdges = <<>>

\* C11: no step of runDetection, of runDetectionWithSteps or of removeCycles
\* changes the caller's graph, so after any sequence of calls it has the keys
\* and successor lists it had before; removeCycles deletes in its copy only.
C11_CallerGraphUnchanged == [][graph' = graph]_vars

\* removeCycles deleted an entry of the start node's list in its copy while
\* the caller's graph has a number entry
C11_Witness ==
    /\ op = "removeCycles" /\ Done /\ StartIsKey
    /\ Len(safeGraph[startNode]) < Len(graph[startNode])
    /\ \E k \in DOMAIN graph : NumericIn(graph[k]) = 1

\* C12 as stated: a runDetection result with found = true carries cycleEdge
\* with source = the last node of pathStack and target = the culprit, the
\* last two elements of loopPath.
C12_DetectCarriesCycleEdge ==
    (op = "runDetection" /\ Done /\ Result.found)
        => /\ "cycleEdge" \in DOMAIN Result
           /\ Result.cycleEdge.source = Top(pathStack)
           /\ Result.cycleEdge.target = Top(Result.loopPath)
           /\ Result.loopPath[Len(Result.loopPath) - 1] = Top(pathStack)

\* the positions of the records of log whose action is a
Positions(log, a) == {i \in 1..Len(log) : log[i].action = a}

\* the number of successors of n the trace has explored
Explored(log, n) ==
    Cardinality({i \in Positions(log, "EXPLORE_NEIGHBOR") : log[i].node = n})

\* C13: stop-at-first-cycle: when a cycle is reachable from the start key the
\* returned steps hold exactly one CYCLE_FOUND record, it is the last record
\* (no EXPLORE_NEIGHBOR, BACKTRACK, MARK_SAFE or COMPLETE after it) and the
\* result has found = true.
C13_StopAtFirstCycle ==
    (op = "runDetectionWithSteps" /\ Done /\ StartIsKey
        /\ CycleReachable(graph, startNode))
        => /\ Positions(Result.steps, "CYCLE_FOUND") = {Len(Result.steps)}
           /\ Result.steps = stepsLog
           /\ Result.found = TRUE

\* the call stopped while a node on the path still had a successor that was
\* never explored
C13_Witness ==
    /\ op = "runDetectionWithSteps" /\ Done /\ StartIsKey
    /\ Result.found = TRUE
    /\ Top(Result.steps).action = "CYCLE_FOUND"
    /\ \E n \in Elems(pathStack) :
          Explored(Result.steps, n) < Len(graph[n])

\* C14: skip-and-continue: for every start key the returned steps end with
\* the only COMPLETE record; when back-edges were skipped the result has
\* found = true, handled = true and the skipped edges, and the count of the
\* COMPLETE message is their number; otherwise the result is found = false.
C14_SkipEndsWithComplete ==
    (op = "runDetectionWithStepsSkip" /\ Done /\ StartIsKey)
        => LET skips == Cardinality(Positions(Result.steps, "SKIP_CYCLE")) IN
           /\ Positions(Result.steps, "COMPLETE") = {Len(Result.steps)}
           /\ Result.steps = stepsLog
           /\ skips = Len(skippedEdges)
           /\ IF skips > 0
              THEN /\ Result.found = TRUE
                   /\ Field(Result, "handled") = <<TRUE>>
                   /\ Result.skippedEdges = skippedEdges
                   /\ Field(Top(Result.steps), "count") = <<skips>>
              ELSE /\ Result.found = FALSE
                   /\ Field(Result, "handled") = <<>>
                   /\ Field(Top(Result.steps), "count") = <<>>

\* a run that met two cycles and still completed
C14_Witness ==
    /\ op = "runDetectionWithStepsSkip" /\ Done /\ StartIsKey
    /\ Result.found = TRUE
    /\ Len(Result.skippedEdges) = 2
    /\ Result.skippedEdges[1] # Result.skippedEdges[2]
    /\ Top(Result.steps).action = "COMPLETE"
    /\ Top(Result.steps).count = 2

\* the nodes the trace has put on the stack
Stacked(log) == {log[i].node : i \in Positions(log, "ADD_TO_STACK")}

\* the k-th smallest element of the set P of positions
RECURSIVE Kth(_, _)
Kth(P, k) ==
    LET m == CHOOSE x \in P : \A y \in P : x <= y
    IN IF k = 1 THEN m ELSE Kth(P \ {m}, k - 1)

\* C15: skip-and-continue: every CYCLE_FOUND record is directly followed by a
\* SKIP_CYCLE record whose skippedEdge is (top of pathStack, detected node),
\* an edge of the input graph; the k-th SKIP_CYCLE record carries the k-th
\* entry of skippedEdges; the traversal goes on with the source node: the
\* next record is its next EXPLORE_NEIGHBOR or its BACKTRACK, and every
\* stacked node has explored all of its successors when the call returns.
C15_SkipThenContinue ==
    (op = "runDetectionWithStepsSkip" /\ Done /\ StartIsKey)
        => LET log == Result.steps
               skips == Positions(log, "SKIP_CYCLE")
           IN
           /\ \A i \in Positions(log, "CYCLE_FOUND") :
                 /\ i + 1 \in skips
                 /\ log[i + 1].node = log[i].node
                 /\ log[i + 1].pathStack = log[i].pathStack
           /\ \A i \in skips :
                 /\ i - 1 \in Positions(log, "CYCLE_FOUND")
                 /\ log[i].skippedEdge =
                        [source |-> Top(log[i].pathStack), target |-> log[i].node]
                 /\ HasEdge(graph, log[i].skippedEdge.source,
                            log[i].skippedEdge.target)
                 /\ i < Len(log)
                 /\ log[i + 1].action \in {"EXPLORE_NEIGHBOR", "BACKTRACK"}
                 /\ log[i + 1].node = log[i].skippedEdge.source
                 /\ log[i + 1].pathStack = log[i].pathStack
           /\ Len(skippedEdges) = Cardinality(skips)
           /\ \A k \in 1..Len(skippedEdges) :
                 log[Kth(skips, k)].skippedEdge = skippedEdges[k]
           /\ \A n \in Stacked(log) :
                 Explored(log, n) = Len(Neighbors(graph, n))

\* after a skipped back-edge its source explored a further successor, and a
\* second back-edge was skipped later
C15_Witness ==
    /\ op = "runDetectionWithStepsSkip" /\ Done /\ StartIsKey
    /\ Len(skippedEdges) = 2
    /\ skippedEdges[1].source # skippedEdges[2].source
    /\ \E i \in Positions(Result.steps, "SKIP_CYCLE") :
          /\ Result.steps[i + 1].action = "EXPLORE_NEIGHBOR"
          /\ Result.steps[i + 1].node = Result.steps[i].skippedEdge.source

TraceOps == {"runDetectionWithSteps", "runDetectionWithStepsSkip"}

\* C16: a step record does not change once it is in stepsLog: every step of
\* a trace call, whatever it adds to or deletes from visited, recursionStack
\* and pathStack, leaves the records already emitted as they were, and the
\* steps the call returns read the same.
C16_RecordsImmutable ==
    [][(op \in TraceOps /\ op' = op)
          => /\ Len(stepsLog') >= Len(stepsLog)
             /\ SubSeq(stepsLog', 1, Len(stepsLog)) = stepsLog
             /\ frames' = <<>> => AsRead(Result'.steps, run') = stepsLog']_vars

\* a returned trace with a record whose three snapshots all differ from the
\* final visited, recursionStack and pathStack
C16_Witness ==
    /\ op \in TraceOps /\ Done /\ StartIsKey
    /\ \E i \in 1..Len(stepsLog) :
          /\ stepsLog[i].visited # visited
          /\ stepsLog[i].recursionStack # recursionStack
          /\ stepsLog[i].pathStack # pathStack
          /\ stepsLog[i].action = "ADD_TO_STACK"

\* path q is p unchanged, p with one node pushed, or p with its top popped
PushOrPop(p, q) ==
    \/ q = p
    \/ Len(q) = Len(p) + 1 /\ Pop(q) = p
    \/ Len(p) = Len(q) + 1 /\ Pop(p) = q

\* C17: in both trace variants, for consecutive records visited of the first
\* is a subset of visited of the second and pathStack of the second is that
\* of the first unchanged, with one node pushed or with its top popped; the
\* recursionStack snapshot of a record has the elements of its pathStack.
C17_SnapshotsConsistent ==
    op \in TraceOps
        => LET log == stepsLog IN
           \A i \in 1..Len(log) :
              /\ log[i].recursionStack = Elems(log[i].pathStack)
              /\ i < Len(log)
                    => /\ log[i].visited \subseteq log[i + 1].visited
                       /\ PushOrPop(log[i].pathStack, log[i + 1].pathStack)

\* a returned skip-and-continue trace that pushed and popped two nodes
\* around a skipped back-edge
C17_Witness ==
    /\ op = "runDetectionWithStepsSkip" /\ Done /\ StartIsKey
    /\ Len(skippedEdges) >= 1
    /\ Cardinality(visited) >= 2
    /\ Cardinality(Positions(stepsLog, "MARK_SAFE")) >= 2
    /\ \E i \in 1..Len(stepsLog) : Len(stepsLog[i].pathStack) = 2

\* C18: on {"1":["2","7"],"2":["3","4"],"3":["2","1"]} from "1" runDetection
\* returns found = true with loopPath ["2","3","2"], and the
\* stop-at-first-cycle trace variant returns the same with cycleEdge (3, 2).
C18_PatlyticsEdgeCase ==
    (graph = TEST_CASES.patlytics_edge /\ startNode = 1 /\ Done)
        => /\ op = "runDetection"
                 => Result.found = TRUE /\ Result.loopPath = <<2, 3, 2>>
           /\ op = "runDetectionWithSteps"
                 => /\ Result.found = TRUE
                    /\ Result.loopPath = <<2, 3, 2>>
                    /\ Result.cycleEdge = [source |-> 3, target |-> 2]

\* runDetection returned on that graph with the path 1, 2, 3
C18_Witness ==
    /\ graph = TEST_CASES.patlytics_edge /\ startNode = 1
    /\ op = "runDetection" /\ Done
    /\ Result.path = <<1, 2, 3>>
    /\ Result.loopPath = <<2, 3, 2>>

\* C19 as stated: on {"1":["2","7"],"2":["3","4"],"3":["2","1"]} from "1"
\* removeCycles removes one edge, (3, 2) or (3, 1), and the safeGraph has no
\* cycle reachable from "1".
C19_RemovesOneEdge ==
    (graph = TEST_CASES.patlytics_edge /\ startNode = 1
        /\ op = "removeCycles" /\ Done)
        => /\ Len(Result.removedEdges) = 1
           /\ Result.removedEdges[1] \in {[source |-> 3, target |-> 2],
                                          [source |-> 3, target |-> 1]}
           /\ ~CycleReachable(Result.safeGraph, 1)

\* C19 amended: on that graph from "1" removeCycles removes both back-edges
\* out of "3", (3, 1) first and (3, 2) second, and nothing else; the
\* safeGraph is {"1":["2","7"],"2":["3","4"],"3":[]}, in which no cycle is
\* reachable from "1".
C19_RemovesBothBackEdges ==
    (graph = TEST_CASES.patlytics_edge /\ startNode = 1
        /\ op = "removeCycles" /\ Done)
        => /\ Result.removedEdges = <<[source |-> 3, target |-> 1],
                                      [source |-> 3, target |-> 2]>>
           /\ Result.safeGraph = [graph EXCEPT ![3] = <<>>]
           /\ ~CycleReachable(Result.safeGraph, 1)

\* removeCycles returned on that graph with the list of "3" emptied
C19_Witness ==
    /\ graph = TEST_CASES.patlytics_edge /\ startNode = 1
    /\ op = "removeCycles" /\ Done
    /\ Len(Result.removedEdges) = 2
    /\ Result.safeGraph[3] = <<>>
    /\ visited = {1, 2, 3, 4, 7}

\* runDetection is about to enter dfs(n) called from the loop of dfs(n): the
\* edge n -> n is being explored
SelfEdgeExplored ==
    /\ op = "runDetection" /\ Len(frames) >= 2
    /\ Top(frames).pc = "enter"
    /\ Top(frames).node = frames[Len(frames) - 1].node

\* C20: when runDetection explores an edge n -> n it returns at once
\* found = true with loopPath [n, n]; on {"1":["1","2"],"2":["3"],"3":[]}
\* from "1" it returns loopPath ["1","1"].
C20_SelfLoopIsCycle ==
    [][/\ (SelfEdgeExplored /\ op' = op)
             => /\ frames' = <<>>
                /\ Result'.found = TRUE
                /\ Result'.loopPath = <<Top(frames).node, Top(frames).node>>
       /\ (graph = TEST_CASES.self_loop /\ op' = "runDetection"
              /\ startNode' = 1 /\ frames' = <<>>)
             => Result'.found = TRUE /\ Result'.loopPath = <<1, 1>>]_vars

\* a self-loop below the start node was reported
C20_Witness ==
    /\ op = "runDetection" /\ Done /\ StartIsKey
    /\ Result.found = TRUE
    /\ Len(pathStack) >= 2
    /\ Result.loopPath = <<Top(pathStack), Top(pathStack)>>

Dangling(g) == AllIds(g) \ DOMAIN g

\* the traversal has gone through everything the start node reaches
Complete ==
    \/ op \in {"removeCycles", "runDetectionWithStepsSkip"}
    \/ Result.found = FALSE

\* C22: a dangling reference is a node without outgoing edges in every
\* operation: nothing is ever called from it, reaching it gives no error, it
\* is never part of a reported cycle or of a skipped or removed back-edge,
\* it is visited when the traversal is complete, and removeCycles does not
\* make it a key: safeGraph has the keys of the input.
C22_DanglingIsLeaf ==
    LET D == Dangling(graph) IN
    /\ op = "removeCycles" => DOMAIN safeGraph = DOMAIN graph
    /\ Running
          => \A d \in D \cap Elems(pathStack) :
                Top(pathStack) = d /\ Top(frames).node = d
    /\ (Done /\ StartIsKey)
          => /\ Field(Result, "error") = <<>>
             /\ D \cap Elems(pathStack) = {}
             /\ Field(Result, "loopPath") # <<>>
                   => D \cap Elems(Result.loopPath) = {}
             /\ \A i \in 1..Len(skippedEdges) : skippedEdges[i].target \notin D
             /\ \A i \in 1..Len(removedEdges) : removedEdges[i].target \notin D
             /\ Complete => D \cap Reach(graph, startNode) \subseteq visited

\* removeCycles went through a dangling reference and removed a back-edge
C22_Witness ==
    /\ op = "removeCycles" /\ Done /\ StartIsKey
    /\ Dangling(graph) \cap visited # {}
    /\ Len(Result.removedEdges) >= 1
    /\ DOMAIN Result.safeGraph = DOMAIN graph

\* C23: at every point of every run of the four functions (the entry of a
\* dfs call, each iteration of a successor loop, the return) and in every
\* step record, pathStack holds exactly the nodes of recursionStack, each
\* once, and visited and recursionStack are disjoint.
C23_StacksAgree ==
    /\ Elems(pathStack) = recursionStack
    /\ Len(pathStack) = Cardinality(recursionStack)
    /\ visited \cap recursionStack = {}
    /\ LET log == stepsLog IN
       \A i \in 1..Len(log) :
          /\ Elems(log[i].pathStack) = log[i].recursionStack
          /\ Len(log[i].pathStack) = Cardinality(log[i].recursionStack)
          /\ log[i].visited \cap log[i].recursionStack = {}

\* a trace run in progress with two nodes on the path, one node visited and
\* a back-edge already skipped
C23_Witness ==
    /\ op = "runDetectionWithStepsSkip" /\ Running
    /\ Len(pathStack) = 2
    /\ Cardinality(visited) = 1
    /\ Len(skippedEdges) = 1

StopOps == {"runDetection", "runDetectionWithSteps"}

\* C24: in runDetection and in the stop-at-first-cycle trace variant no
\* cycle of the input graph is reachable from a node of visited, at any
\* point and in any record; so a call that is about to return not-found
\* because its node is in visited hides no reachable cycle.
C24_VisitedIsCycleFree ==
    op \in StopOps
        => /\ \A n \in visited : ~CycleReachable(graph, n)
           /\ \A i \in 1..Len(stepsLog) :
                 \A n \in stepsLog[i].visited : ~CycleReachable(graph, n)

\* a visited node was met again and pruned, and a cycle was found afterwards
C24_Witness ==
    /\ op = "runDetection" /\ Done /\ StartIsKey
    /\ Result.found = TRUE
    /\ Len(graph[startNode]) = 3
    /\ String(graph[startNode][1]) \in visited
    /\ String(graph[startNode][2]) = String(graph[startNode][1])

\* the graph g without the edges listed in edges
Without(g, edges) ==
    [k \in DOMAIN g |->
        SelectSeq(g[k], LAMBDA e :
            [source |-> k, target |-> String(e)] \notin Elems(edges))]

\* the nodes for which a MARK_SAFE record is in log
MarkedSafe(log) == {log[i].node : i \in Positions(log, "MARK_SAFE")}

\* C25 as stated: skip-and-continue: no cycle of the input graph is
\* reachable from a node for which MARK_SAFE was emitted.
C25_MarkedSafeIsCycleFree ==
    op = "runDetectionWithStepsSkip"
        => /\ MarkedSafe(stepsLog) = visited
           /\ \A n \in visited : ~CycleReachable(graph, n)

\* C25 amended: skip-and-continue: the nodes for which MARK_SAFE was emitted
\* are the nodes of visited, and from none of them a cycle is reachable in
\* the input graph without the back-edges skipped so far.
C25_MarkedSafeAfterSkips ==
    op = "runDetectionWithStepsSkip"
        => /\ MarkedSafe(stepsLog) = visited
           /\ \A n \in visited :
                 ~CycleReachable(Without(graph, skippedEdges), n)

\* every node of a three-node cycle was marked safe
C25_Witness ==
    /\ op = "runDetectionWithStepsSkip" /\ Done /\ StartIsKey
    /\ Cardinality(visited) = 3
    /\ \A n \in visited : OnCycle(graph, n)
    /\ Len(skippedEdges) = 1
    /\ MarkedSafe(stepsLog) = visited

\* record i of log is followed by a record with action a and node n
FollowedBy(log, i, a, n) ==
    i < Len(log) /\ log[i + 1].action = a /\ log[i + 1].node = n

\* the number of EXPLORE_NEIGHBOR records of node n among the first i records
ExploredUpTo(log, i, n) ==
    Cardinality({j \in Positions(log, "EXPLORE_NEIGHBOR") :
                    j <= i /\ log[j].node = n})

\* C26: the returned steps of both trace variants follow the per-visit state
\* machine: START comes first; ENTER_NODE is followed by CHECK_IN_STACK of
\* the node; CHECK_IN_STACK by CYCLE_FOUND when the node is in the recorded
\* recursionStack and by CHECK_VISITED otherwise; CHECK_VISITED by
\* SKIP_VISITED when the node is in the recorded visited and by ADD_TO_STACK
\* otherwise; EXPLORE_NEIGHBOR by ENTER_NODE of its targetNeighbor, the
\* k-th EXPLORE_NEIGHBOR of a node going to its k-th listed successor;
\* BACKTRACK by MARK_SAFE of the node; COMPLETE is last when it occurs.
C26_StepStateMachine ==
    (op \in TraceOps /\ Done)
        => LET log == Result.steps IN
           /\ log[1].action = "START"
           /\ Positions(log, "START") = {1}
           /\ \A i \in 1..Len(log) :
                 LET r == log[i] IN
                 /\ r.action = "ENTER_NODE"
                       => FollowedBy(log, i, "CHECK_IN_STACK", r.node)
                 /\ r.action = "CHECK_IN_STACK"
                       => IF r.node \in r.recursionStack
                          THEN FollowedBy(log, i, "CYCLE_FOUND", r.node)
                          ELSE FollowedBy(log, i, "CHECK_VISITED", r.node)
                 /\ r.action = "CHECK_VISITED"
                       => IF r.node \in r.visited
                          THEN FollowedBy(log, i, "SKIP_VISITED", r.node)
                          ELSE FollowedBy(log, i, "ADD_TO_STACK", r.node)
                 /\ r.action = "EXPLORE_NEIGHBOR"
                       => /\ FollowedBy(log, i, "ENTER_NODE", r.targetNeighbor)
                          /\ ExploredUpTo(log, i, r.node)
                                <= Len(Neighbors(graph, r.node))
                          /\ r.targetNeighbor =
                                String(Neighbors(graph, r.node)
                                           [ExploredUpTo(log, i, r.node)])
                 /\ r.action = "BACKTRACK"
                       => FollowedBy(log, i, "MARK_SAFE", r.node)
                 /\ r.action = "COMPLETE" => i = Len(log)

\* a returned stop-at-first-cycle trace with a SKIP_VISITED and a
\* CYCLE_FOUND record
C26_Witness ==
    /\ op = "runDetectionWithSteps" /\ Done /\ StartIsKey
    /\ Positions(Result.steps, "SKIP_VISITED") # {}
    /\ Positions(Result.steps, "CYCLE_FOUND") # {}
    /\ Positions(Result.steps, "MARK_SAFE") # {}

\* a is b with some entries deleted, the others in their order
RECURSIVE IsSubseq(_, _)
IsSubseq(a, b) ==
    IF a = <<>> THEN TRUE
    ELSE IF b = <<>> THEN FALSE
    ELSE IF Head(a) = Head(b) THEN IsSubseq(Tail(a), Tail(b))
    ELSE IsSubseq(a, Tail(b))

\* the number of records of edges equal to e
Records(edges, e) == Cardinality({i \in 1..Len(edges) : edges[i] = e})

RECURSIVE EdgeCount(_, _)
EdgeCount(g, K) ==
    IF K = {} THEN 0
    ELSE LET k == CHOOSE x \in K : TRUE
         IN Len(g[k]) + EdgeCount(g, K \ {k})

\* the working graph is the input without one entry per removedEdges record
ExactRemoval ==
    /\ DOMAIN safeGraph = DOMAIN graph
    /\ \A k \in DOMAIN graph :
          /\ IsSubseq(safeGraph[k], graph[k])
          /\ \A v \in AllIds(graph) :
                EntryCount(graph, k, v) - EntryCount(safeGraph, k, v)
                    = Records(removedEdges, [source |-> k, target |-> v])
    /\ \A i \in 1..Len(removedEdges) :
          removedEdges[i].source \in DOMAIN graph
    /\ EdgeCount(safeGraph, DOMAIN safeGraph) + Len(removedEdges)
          = EdgeCount(graph, DOMAIN graph)

\* the successor loop of removeCycles examines an entry whose target is not
\* on the recursion stack
ExaminesSafeEdge ==
    /\ op = "removeCycles" /\ Running
    /\ Top(frames).pc = "loop" /\ Top(frames).idx >= 0
    /\ String(Neighbors(safeGraph, Top(frames).node)[Top(frames).idx + 1])
          \notin recursionStack

\* C27: safeGraph is the input with exactly the recorded back-edges removed:
\* each successor list is the input list without one entry per removedEdges
\* record of that source and target, the other entries in their order; an
\* entry whose target is visited or new is left in place; the edges of
\* safeGraph and the removedEdges records add up to the edges of the input.
C27_ExactlyBackEdgesRemoved ==
    [][op' = "removeCycles"
          => /\ ExactRemoval'
             /\ ExaminesSafeEdge
                   => safeGraph' = safeGraph /\ removedEdges' = removedEdges]_vars

\* an edge to a visited node was kept next to a removed back-edge of the
\* same source
C27_Witness ==
    /\ op = "removeCycles" /\ Done /\ StartIsKey
    /\ Len(Result.removedEdges) = 1
    /\ Len(Result.safeGraph[startNode]) = 2
    /\ Len(graph[startNode]) = 3
    /\ String(Result.safeGraph[startNode][1])
          = String(Result.safeGraph[startNode][2])
    /\ String(Result.safeGraph[startNode][1]) # startNode

\* C28: no node is explored twice within a run of any of the four
\* functions: visited never loses a node, a step pushes at most one node on
\* pathStack and that node is neither visited nor on the stack, also after
\* back-edges were skipped; a trace holds at most one ADD_TO_STACK record
\* per node.
C28_ExploredOnce ==
    [][(op # "idle" /\ op' = op)
          => /\ visited \subseteq visited'
             /\ Len(pathStack') <= Len(pathStack) + 1
             /\ Len(pathStack') = Len(pathStack) + 1
                   => /\ Pop(pathStack') = pathStack
                      /\ Top(pathStack') \notin visited \cup recursionStack
             /\ \A n \in Stacked(stepsLog') :
                   Cardinality({i \in Positions(stepsLog', "ADD_TO_STACK") :
                                   stepsLog'[i].node = n}) = 1]_vars

\* in a skip-and-continue run a visited node was met again after a back-edge
\* had been skipped, and was not put on the stack again
C28_Witness ==
    /\ op = "runDetectionWithStepsSkip" /\ Done /\ StartIsKey
    /\ \E i \in Positions(stepsLog, "SKIP_CYCLE") :
          \E j \in Positions(stepsLog, "SKIP_VISITED") : i < j

\* C29: removeCycles preserves reachability: at every point of the call the
\* nodes reachable from startNode in the working graph are those reachable
\* in the input, because an edge is deleted only when it leads from the top
\* of the current path to a node on that path.
C29_ReachabilityPreserved ==
    [][op' = "removeCycles"
          => /\ Reach(safeGraph', startNode') = Reach(graph', startNode')
             /\ Removal
                   => LET e == removedEdges'[Len(removedEdges')] IN
                      /\ e.source = Top(pathStack)
                      /\ e.target \in Elems(pathStack)
                      /\ e.target \notin visited]_vars

\* a back-edge was removed from a graph in which the start key reaches three
\* nodes
C29_Witness ==
    /\ op = "removeCycles" /\ Done /\ StartIsKey
    /\ Len(Result.removedEdges) = 1
    /\ Cardinality(Reach(graph, startNode)) = 3
    /\ Reach(Result.safeGraph, startNode) = Reach(graph, startNode)

\* the App state in which the fix button is pressed with the graph g in the
\* editor: step mode on and a FAIL result shown
AppBeforeFix(g) == AppState(JsonStringify(g), TRUE, <<[status |-> "FAIL"]>>)

\* C30: fix then re-check always passes: for a start key, runDetection on
\* the safeGraph removeCycles returned reports found = false, and when at
\* least one edge was removed the App's fixCycle, which re-runs detection on
\* the repaired graph, ends with the PASS result and the repaired graph in
\* the editor.
C30_FixThenRecheckPasses ==
    (op = "removeCycles" /\ Done /\ StartIsKey)
        => /\ runDetection(Result.safeGraph, startNode) = [found |-> FALSE]
           /\ Len(Result.removedEdges) > 0
                 => LET after == fixCycle(AppBeforeFix(graph), startNode) IN
                    /\ after.result = <<[status |-> "PASS",
                                         resolved |-> Result.removedEdges]>>
                    /\ after.jsonInput = JsonStringify(Result.safeGraph)
                    /\ after.isStepMode = FALSE
                    /\ after.alert = <<>>

\* a fix that removed two back-edges of a graph in which detection finds a
\* cycle
C30_Witness ==
    /\ op = "removeCycles" /\ Done /\ StartIsKey
    /\ Len(Result.removedEdges) = 2
    /\ runDetection(graph, startNode).found
    /\ fixCycle(AppBeforeFix(graph), startNode).result # <<>>

\* C31: the three operations agree on whether a cycle exists: for a start
\* key, runDetection returns found = true exactly when removeCycles removes
\* at least one edge and exactly when the skip-and-continue
\* runDetectionWithSteps returns found = true.
C31_OperationsAgree ==
    (op = "runDetection" /\ Done /\ StartIsKey)
        => /\ Result.found
                 = (Len(removeCycles(graph, startNode).removedEdges) > 0)
           /\ Result.found
                 = runDetectionWithStepsSkip(graph, startNode).found

\* runDetection stopped at the first cycle of a graph in which the two other
\* operations met two back-edges
C31_Witness ==
    /\ op = "runDetection" /\ Done /\ StartIsKey
    /\ Result.found
    /\ Len(removeCycles(graph, startNode).removedEdges) = 2
    /\ Len(runDetectionWithStepsSkip(graph, startNode).skippedEdges) = 2

\* the skippedEdges a skip-and-continue result r carries (none when found is
\* false)
SkippedOf(r) == IF r.found THEN r.skippedEdges ELSE <<>>

\* C32: the back-edges skipped by skip-and-continue cover every reachable
\* cycle: for a start key, the input graph with every (source, target) pair
\* of the returned skippedEdges deleted has no cycle through a node
\* reachable from startNode.
C32_SkippedEdgesCoverCycles ==
    (op = "runDetectionWithStepsSkip" /\ Done /\ StartIsKey)
        => LET cut == Without(graph, SkippedOf(Result)) IN
           /\ SkippedOf(Result) = skippedEdges
           /\ \A n \in Reach(graph, startNode) : ~OnCycle(cut, n)

\* two back-edges with different sources were skipped in a graph whose
\* three nodes all lie on cycles
C32_Witness ==
    /\ op = "runDetectionWithStepsSkip" /\ Done /\ StartIsKey
    /\ Result.found
    /\ Len(Result.skippedEdges) = 2
    /\ Result.skippedEdges[1].source # Result.skippedEdges[2].source
    /\ \A n \in Nodes : OnCycle(graph, n) /\ n \in Reach(graph, startNode)
    /\ ~HasCycle(Without(graph, Result.skippedEdges))

\* the position of the first record of log with action a (0 when none)
FirstPos(log, a) ==
    IF Positions(log, a) = {} THEN 0
    ELSE CHOOSE i \in Positions(log, a) : \A j \in Positions(log, a) : i <= j

\* C33: the two trace policies coincide up to the first cycle: for a start
\* key with a reachable cycle the stop-at-first-cycle trace is the
\* skip-and-continue trace up to and including its first CYCLE_FOUND record,
\* and the first entry of skippedEdges is the stop-at-first-cycle cycleEdge;
\* with no reachable cycle the two traces are equal record for record.
C33_PoliciesCoincide ==
    (op = "runDetectionWithSteps" /\ Done /\ StartIsKey)
        => LET skip == runDetectionWithStepsSkip(graph, startNode)
               k == FirstPos(skip.steps, "CYCLE_FOUND")
           IN IF CycleReachable(graph, startNode)
              THEN /\ Result.found /\ skip.found
                   /\ k > 0
                   /\ Result.steps = SubSeq(skip.steps, 1, k)
                   /\ skip.skippedEdges[1] = Result.cycleEdge
              ELSE /\ ~Result.found /\ ~skip.found
                   /\ Result.steps = skip.steps

\* the skip-and-continue trace went on after the record at which the
\* stop-at-first-cycle trace ends, and met a second cycle
C33_Witness ==
    /\ op = "runDetectionWithSteps" /\ Done /\ StartIsKey
    /\ Result.found
    /\ Len(Result.steps) > 8
    /\ LET skip == runDetectionWithStepsSkip(graph, startNode) IN
       /\ Len(skip.skippedEdges) = 2
       /\ Len(skip.steps) > Len(Result.steps) + 5
       /\ skip.skippedEdges[1] = Result.cycleEdge
       /\ skip.skippedEdges[2] # Result.cycleEdge

\* C34: a stop-at-first-cycle run from a start key captures COMPLETE exactly
\* when no cycle is reachable, a skip-and-continue run always; the COMPLETE
\* record is the last one, its recursionStack and pathStack snapshots are
\* empty and its visited snapshot is the set of nodes reachable from
\* startNode in the input graph, successors that are not keys included.
C34_CompleteSnapshot ==
    (op \in TraceOps /\ Done /\ StartIsKey)
        => LET log == stepsLog
               done == Positions(log, "COMPLETE")
           IN /\ log = Result.steps
              /\ done = IF op = "runDetectionWithSteps"
                           /\ CycleReachable(graph, startNode)
                        THEN {} ELSE {Len(log)}
              /\ \A i \in done :
                    /\ log[i].recursionStack = {}
                    /\ log[i].pathStack = <<>>
                    /\ log[i].visited = Reach(graph, startNode)
                    /\ log[i].node = startNode

\* a skip-and-continue run that skipped a back-edge and completed with a
\* node in visited that is no key of the graph
C34_Witness ==
    /\ op = "runDetectionWithStepsSkip" /\ Done /\ StartIsKey
    /\ Result.found
    /\ Top(Result.steps).action = "COMPLETE"
    /\ Top(Result.steps).visited \ DOMAIN graph # {}
    /\ Cardinality(Top(Result.steps).visited) = 3

\* the graph whose lists the traversal in progress reads
TraversedGraph == IF op = "removeCycles" THEN safeGraph ELSE graph

\* p holds no node twice
IsSimple(p) == \A i, j \in 1..Len(p) : p[i] = p[j] => i = j

\* p starts at s and each element is a successor in g of the one before it
IsPathFrom(g, s, p) ==
    /\ p # <<>> => p[1] = s
    /\ \A i \in 1..(Len(p) - 1) : HasEdge(g, p[i], p[i + 1])

\* C35: at every point of a traversal pathStack is a simple path of the
\* graph that starts at startNode; a reported loopPath is the suffix of
\* pathStack from the culprit with the culprit appended, hence a closed walk
\* in which no node but its first and last occurs twice.
C35_PathStackSimplePath ==
    op # "idle"
        => /\ IsSimple(pathStack)
           /\ IsPathFrom(TraversedGraph, startNode, pathStack)
           /\ IsPathFrom(graph, startNode, pathStack)
           /\ (Done /\ op \in {"runDetection", "runDetectionWithSteps"}
                 /\ Result.found)
                 => LET loop == Result.loopPath
                        i == IndexOf(pathStack, Top(loop))
                    IN /\ i > 0
                       /\ loop = Append(SubSeq(pathStack, i, Len(pathStack)),
                                        pathStack[i])
                       /\ IsSimple(Pop(loop))
                       /\ IsClosedWalk(graph, loop)
                       /\ Result.path = pathStack

\* a loop of two nodes was reported below a start node that is not on it
C35_Witness ==
    /\ op \in {"runDetection", "runDetectionWithSteps"} /\ Done /\ StartIsKey
    /\ Result.found
    /\ Len(pathStack) = 3
    /\ Len(Result.loopPath) = 3
    /\ Result.loopPath[1] = pathStack[2]
    /\ IsSimple(pathStack)

\* C36: in the replay player, while step mode is on, currentStepIndex stays
\* within 0 .. steps.length - 1 after every interleaving of the player's
\* handlers and of the autoplay timeouts; a timeout is pending only while
\* step mode and autoplay are on and the index is below the last step, so no
\* tick fires once the last step is reached or step mode has been left.
C36_IndexInRange ==
    /\ player.isStepMode
          => /\ 0 <= player.currentStepIndex
             /\ player.currentStepIndex <= Len(player.steps) - 1
    /\ \A id \in player.timers :
          /\ player.isStepMode /\ player.isAutoPlaying
          /\ player.currentStepIndex < Len(player.steps) - 1
          /\ id = player.autoPlayRef

\* the last step was reached in step mode after a timeout had been set, and
\* no timeout is pending
C36_Witness ==
    /\ player.isStepMode /\ player.userPresent
    /\ player.currentStepIndex = Len(player.steps) - 1
    /\ player.autoPlayRef # 0
    /\ player.timers = {}

\* the index of the last step of the trace being replayed
LastStep == Len(player.steps) - 1

\* C37: autoplay always stops at the end of the trace: once autoplay is on
\* and no click arrives any more, the index only moves by one per timer
\* tick, reaches the last step, and autoplay is then off; with autoplay off
\* nothing changes again; turning autoplay on at the last step leaves it off
\* and the index where it is.
C37_AutoPlayStops ==
    /\ (~player.userPresent /\ player.isAutoPlaying)
          ~> (~player.isAutoPlaying /\ player.currentStepIndex = LastStep)
    /\ [][~player.userPresent
             => /\ player'.currentStepIndex # player.currentStepIndex
                      => /\ player.isAutoPlaying
                         /\ player'.currentStepIndex
                               = player.currentStepIndex + 1
                         /\ player'.isAutoPlaying
                               = (player'.currentStepIndex < LastStep)
                /\ ~player.isAutoPlaying => player' = player]_vars
    /\ [][(OnToggleAutoPlay /\ player.currentStepIndex = LastStep)
             => /\ ~player'.isAutoPlaying
                /\ player'.currentStepIndex = player.currentStepIndex
                /\ player'.timers = {}]_vars

\* autoplay is on with its timeout pending one step before the last one,
\* several steps into the trace, and no click can arrive any more
C37_Witness ==
    /\ ~player.userPresent
    /\ player.isStepMode /\ player.isAutoPlaying
    /\ player.timers # {}
    /\ player.currentStepIndex = LastStep - 1
    /\ player.currentStepIndex > 5

====
